---- MODULE Spec2Model ----
(***************************************************************************)
(* Heap allocators of the kernel: the bump allocator, the linked list      *)
(* allocator and the fixed size block allocator with its linked list       *)
(* fallback, over a machine word of WordBits bits.                         *)
(***************************************************************************)
EXTENDS Integers, Sequences, FiniteSets, TLC

(* ------------------------------------------------------------------ *)
(* Machine word.  usize is 64 bits wide in the kernel; the model keeps *)
(* the wrap-around of unsigned arithmetic on a narrower word.          *)
(* ------------------------------------------------------------------ *)
WordBits == 16

\* Most live allocations a caller holds at one time.
MaxLive == 3

\* alloc is called on the bump allocator only while its counter is below this.
MaxCount == 5

\* Cores that call the global allocator at the same time.
NCores == 2

\* Largest size of the layouts that list_index is probed with.
MaxProbeSize == 2050

Pow2(n) == 2 ^ n

Word == Pow2(WordBits)
MaxWord == Word - 1
ISizeMax == Pow2(WordBits - 1) - 1

\* The null pointer, the failure sentinel of GlobalAlloc::alloc.
NULL == 0

Max(a, b) == IF a >= b THEN a ELSE b

IsPow2(a) == \E k \in 0..(WordBits - 1) : a = Pow2(k)

\* Layout::from_size_align: align a power of two, and size rounded up to
\* align no greater than isize::MAX.
LayoutValid(size, align) == IsPow2(align) /\ size <= ISizeMax - (align - 1)

(* ------------------------------------------------------------------ *)
(* allocator.rs                                                        *)
(* ------------------------------------------------------------------ *)
VARIABLES
    kind,             \* which allocator is under test: "bump", "ll", "fsb"
    scn,              \* index of the heap scenario handed to init
    overflow_checks,  \* build profile: arithmetic overflow panics (TRUE) or wraps
    initialized,      \* init has been called
    heap_start,       \* BumpAllocator.heap_start (init's argument for the others)
    heap_end,         \* BumpAllocator.heap_end   (heap_start + heap_size)
    next,             \* BumpAllocator.next
    allocations,      \* BumpAllocator.allocations
    head,             \* LinkedListAllocator.head.next: the free list, front first
    list_heads,       \* FixedSizeBlockAllocator.list_heads: one block list per class
    live,             \* allocations handed out and not yet freed (caller's view)
    last,             \* the last call and what it returned (retry: an alloc of
                      \* the layout whose alloc was the latest to fail)
    prev,             \* the dealloc that an alloc followed at once, if it did
    failed,           \* the layout of the latest alloc that returned the failure sentinel
    panicked,         \* "none", or the panic that stopped the kernel
    pc,               \* per core: where its call on ALLOCATOR stands
    req,              \* per core: the call's arguments, locals and result
    mutex,            \* per Locked instance: the core whose guard is alive
    snap,             \* list_heads and the free list when ALLOCATOR was locked
    align_call,       \* one call of align_up: its arguments and what it returned
    column_position,  \* Writer.column_position
    buffer,           \* Writer.buffer.chars: the ascii_character of each cell
    pending,          \* the bytes of the running write_string not yet written
    test_string,      \* the string s of test_println_output
    interrupts_enabled, \* the interrupt flag of the core
    print_pc,         \* per context: where its _print call (or handler) stands
    print_req,        \* per context: the lock it prints through, the saved flag
    print_mutex,      \* per spin::Mutex of a printer: the context holding its guard
    written           \* what the last write_byte did to the buffer

vars == <<kind, scn, overflow_checks, initialized, heap_start, heap_end, next,
          allocations, head, list_heads, live, last, prev, failed, panicked,
          pc, req, mutex, snap, align_call, column_position, buffer, pending,
          test_string, interrupts_enabled, print_pc, print_req, print_mutex, written>>

\* The state of the VGA writer and of the callers of the print macros.
vgavars == <<column_position, buffer, pending, test_string, interrupts_enabled,
             print_pc, print_req, print_mutex, written>>

\* The state of the calls of the cores.
callvars == <<pc, req, mutex, snap>>

\* align_up without the rounding: the address is handed back as it is.
align_up_identity(addr, align) == [panic |-> "none", val |-> addr]

\* align_up(addr, align) = (addr + align - 1) & !(align - 1) on usize.
\* With overflow checks the additions panic on overflow; without, they wrap.
align_up(addr, align) ==
    LET t1 == addr + align
        ovf == t1 > MaxWord
        t1w == t1 % Word
        t2 == IF t1w = 0 THEN MaxWord ELSE t1w - 1
    IN  IF (ovf \/ t1w = 0) /\ overflow_checks
        THEN [panic |-> "attempt to add with overflow", val |-> 0]
        ELSE [panic |-> "none", val |-> t2 - (t2 % align)]

(* ------------------------------------------------------------------ *)
(* Heaps handed to init and the layouts the caller asks for.           *)
(* Every heap is mapped memory above the null page that ends inside    *)
(* the address space; every layout is a valid Layout of non-zero size. *)
(* ------------------------------------------------------------------ *)
Layout(size, align) == [size |-> size, align |-> align]

AllKinds == {"bump", "ll", "fsb"}

Scenarios == <<
    \* a small heap that is 8-aligned only, for splitting and exhaustion
    [start |-> 72, size |-> 88, kinds |-> {"ll", "fsb"},
     layouts |-> {Layout(8, 8), Layout(8, 16), Layout(24, 8)}],
    \* three 100-byte allocations and one of 150 bytes
    [start |-> 4096, size |-> 480, kinds |-> AllKinds,
     layouts |-> {Layout(100, 1), Layout(150, 1)}],
    \* the largest size class and the first size beyond it
    [start |-> 8192, size |-> 4160, kinds |-> AllKinds,
     layouts |-> {Layout(1024, 1024), Layout(2048, 1), Layout(2049, 1)}],
    \* a heap in the upper half of the address space
    [start |-> (Word \div 2) + 8, size |-> (Word \div 2) - 16, kinds |-> AllKinds,
     layouts |-> {Layout(Word \div 4, 8), Layout(Word \div 8, Word \div 4),
                  Layout(ISizeMax, 1)}],
    \* the small heap of the bump allocator
    [start |-> 72, size |-> 64, kinds |-> {"bump"},
     layouts |-> {Layout(8, 8), Layout(8, 16), Layout(24, 8)}] >>

Layouts == Scenarios[scn].layouts

NoCall == [op |-> "none", size |-> 0, align |-> 0, addr |-> NULL, route |-> "none",
           index |-> 0, retry |-> FALSE, fresh |-> FALSE]

Less(a, b) ==
    \/ a.addr < b.addr
    \/ a.addr = b.addr /\ a.size < b.size
    \/ a.addr = b.addr /\ a.size = b.size /\ a.align < b.align

\* live is kept in address order: the order of the calls is not part of it.
InsertLive(seq, r) ==
    LET k == Cardinality({i \in DOMAIN seq : Less(seq[i], r)})
    IN  SubSeq(seq, 1, k) \o <<r>> \o SubSeq(seq, k + 1, Len(seq))

RemoveAt(seq, i) == SubSeq(seq, 1, i - 1) \o SubSeq(seq, i + 1, Len(seq))

\* alloc returned addr (NULL: the failure sentinel) to the caller; route and
\* index tell the path the call took (index: the size class, 0 when none).
Returned(size, align, addr, route, index) ==
    /\ last' = [op |-> "alloc", size |-> size, align |-> align, addr |-> addr,
                route |-> route, index |-> index,
                retry |-> Layout(size, align) \in failed, fresh |-> FALSE]
    /\ prev' = IF last.op = "dealloc" THEN last ELSE NoCall
    /\ live' = IF addr = NULL THEN live
               ELSE InsertLive(live, [addr |-> addr, size |-> size, align |-> align])
    /\ failed' = IF addr = NULL THEN {Layout(size, align)} ELSE failed
    /\ UNCHANGED panicked

\* dealloc of live[i] returned (fresh: the block was returned by the alloc
\* called just before).
Released(i, route, index) ==
    /\ last' = [op |-> "dealloc", size |-> live[i].size, align |-> live[i].align,
                addr |-> live[i].addr, route |-> route, index |-> index,
                retry |-> FALSE,
                fresh |-> (last.op = "alloc" /\ last.addr = live[i].addr
                           /\ last.size = live[i].size /\ last.align = live[i].align)]
    /\ prev' = NoCall
    /\ live' = RemoveAt(live, i)
    /\ UNCHANGED <<failed, panicked>>

\* The call panicked: the kernel's panic handler never returns.
Panicked(op, size, align, msg) ==
    /\ panicked' = msg
    /\ last' = [op |-> op, size |-> size, align |-> align, addr |-> NULL,
                route |-> "panic", index |-> 0, retry |-> FALSE, fresh |-> FALSE]
    /\ prev' = IF op = "alloc" /\ last.op = "dealloc" THEN last ELSE NoCall
    /\ UNCHANGED <<live, failed>>

Running == initialized /\ panicked = "none"

(* ------------------------------------------------------------------ *)
(* allocator/bump.rs                                                   *)
(* ------------------------------------------------------------------ *)
BumpInit ==
    /\ kind = "bump" /\ ~initialized
    /\ initialized' = TRUE
    /\ heap_start' = Scenarios[scn].start
    /\ heap_end' = Scenarios[scn].start + Scenarios[scn].size
    /\ next' = Scenarios[scn].start
    /\ UNCHANGED <<vgavars, align_call, kind, scn, overflow_checks, allocations, head, list_heads,
                   live, last, prev, failed, panicked>>
    /\ UNCHANGED callvars

\* alloc once align_up(next, layout.align()) is computed (a).
BumpAllocDone(size, align, a) ==
    IF a.panic # "none"
    THEN /\ Panicked("alloc", size, align, a.panic)
         /\ UNCHANGED <<next, allocations>>
    ELSE IF a.val + size > MaxWord \/ a.val + size > heap_end
    THEN /\ Returned(size, align, NULL, "bump", 0)
         /\ UNCHANGED <<next, allocations>>
    ELSE /\ next' = a.val + size
         /\ allocations' = allocations + 1
         /\ Returned(size, align, a.val, "bump", 0)

\* One alloc call with a layout of the set layouts.
BumpAllocOf(layouts) ==
    /\ kind = "bump" /\ Running
    /\ \E l \in layouts : BumpAllocDone(l.size, l.align, align_up(next, l.align))
    /\ UNCHANGED <<vgavars, align_call, kind, scn, overflow_checks, initialized, heap_start, heap_end,
                   head, list_heads>>
    /\ UNCHANGED callvars

BumpAlloc ==
    /\ Len(live) < MaxLive /\ allocations < MaxCount
    /\ BumpAllocOf(Layouts)

\* dealloc that never moves next back to heap_start.
BumpDeallocNoReset(i) ==
    /\ allocations' = (allocations + Word - 1) % Word
    /\ next' = next
    /\ Released(i, "bump", 0)

BumpDeallocStep(i) ==
    IF allocations = 0 /\ overflow_checks
    THEN /\ Panicked("dealloc", live[i].size, live[i].align,
                     "attempt to subtract with overflow")
         /\ UNCHANGED <<next, allocations>>
    ELSE /\ allocations' = (allocations + Word - 1) % Word
         /\ next' = IF (allocations + Word - 1) % Word = 0 THEN heap_start ELSE next
         /\ Released(i, "bump", 0)

BumpDealloc ==
    /\ kind = "bump" /\ Running
    /\ \E i \in DOMAIN live : BumpDeallocStep(i)
    /\ UNCHANGED <<vgavars, align_call, kind, scn, overflow_checks, initialized, heap_start, heap_end,
                   head, list_heads>>
    /\ UNCHANGED callvars

NextBump == BumpInit \/ BumpAlloc \/ BumpDealloc

(* ------------------------------------------------------------------ *)
(* allocator/linked_list.rs                                            *)
(* A free region is the ListNode written at its start: [addr, size].   *)
(* ------------------------------------------------------------------ *)
\* mem::size_of::<ListNode>() and mem::align_of::<ListNode>() of
\* struct ListNode { size: usize, next: Option<&'static mut ListNode> }.
LL_NODE_SIZE == 16
LL_NODE_ALIGN == 8

Region(addr, size) == [addr |-> addr, size |-> size]

start_addr(region) == region.addr

end_addr(region) == start_addr(region) + region.size

\* add_free_region that merges the new region into a node that ends where it
\* starts, when there is one.
push_region_merging(list, addr, size, a) ==
    IF \E i \in DOMAIN list : end_addr(list[i]) = addr
    THEN [panic |-> "none",
          list |-> [i \in DOMAIN list |->
                      IF end_addr(list[i]) = addr
                      THEN Region(list[i].addr, list[i].size + size)
                      ELSE list[i]]]
    ELSE [panic |-> "none", list |-> <<Region(addr, size)>> \o list]

\* add_free_region that links the new node behind the last node of the list.
push_region_back(list, addr, size, a) ==
    IF a.panic # "none" THEN [panic |-> a.panic, list |-> list]
    ELSE IF a.val # addr \/ ~(size >= LL_NODE_SIZE)
    THEN [panic |-> "assertion failed", list |-> list]
    ELSE [panic |-> "none", list |-> list \o <<Region(addr, size)>>]

\* add_free_region once align_up(addr, align_of::<ListNode>()) is computed:
\* assert_eq!(align_up(..), addr); assert!(size >= size_of::<ListNode>());
\* then the node is written at addr and becomes the first of the list.
push_region(list, addr, size, a) ==
    IF a.panic # "none" THEN [panic |-> a.panic, list |-> list]
    ELSE IF a.val # addr
    THEN [panic |-> "assertion failed: align_up(addr, align_of ListNode) == addr",
          list |-> list]
    ELSE IF ~(size >= LL_NODE_SIZE)
    THEN [panic |-> "assertion failed: size >= size_of ListNode", list |-> list]
    ELSE [panic |-> "none", list |-> <<Region(addr, size)>> \o list]

add_free_region(list, addr, size) ==
    push_region(list, addr, size, align_up(addr, LL_NODE_ALIGN))

\* alloc_from_region that turns down a region the block fills to its end.
fit_region_needs_tail(region, size, a) ==
    IF a.panic # "none" THEN [panic |-> a.panic, ok |-> FALSE, alloc_start |-> 0]
    ELSE IF a.val + size > MaxWord \/ a.val + size > end_addr(region)
    THEN [panic |-> "none", ok |-> FALSE, alloc_start |-> 0]
    ELSE IF end_addr(region) - (a.val + size) < LL_NODE_SIZE
    THEN [panic |-> "none", ok |-> FALSE, alloc_start |-> 0]
    ELSE [panic |-> "none", ok |-> TRUE, alloc_start |-> a.val]

\* alloc_from_region once alloc_start = align_up(region.start_addr(), align)
\* is computed (a): checked_add, the bound of the region, the leftover rule.
fit_region(region, size, a) ==
    IF a.panic # "none" THEN [panic |-> a.panic, ok |-> FALSE, alloc_start |-> 0]
    ELSE IF a.val + size > MaxWord
    THEN [panic |-> "none", ok |-> FALSE, alloc_start |-> 0]
    ELSE IF a.val + size > end_addr(region)
    THEN [panic |-> "none", ok |-> FALSE, alloc_start |-> 0]
    ELSE IF end_addr(region) - (a.val + size) > 0
            /\ end_addr(region) - (a.val + size) < LL_NODE_SIZE
    THEN [panic |-> "none", ok |-> FALSE, alloc_start |-> 0]
    ELSE [panic |-> "none", ok |-> TRUE, alloc_start |-> a.val]

alloc_from_region(region, size, align) ==
    fit_region(region, size, align_up(start_addr(region), align))

\* The loop of find_region from the i-th node on: the first node that
\* alloc_from_region accepts (index 0: None); r is its verdict on node i.
RECURSIVE find_from(_, _, _, _)
\* The loop that goes on past a node that fits when a later node fits too.
find_step_last(list, i, size, align, r) ==
    IF r.panic # "none" THEN [panic |-> r.panic, index |-> 0, alloc_start |-> 0]
    ELSE IF r.ok /\ find_from(list, i + 1, size, align).index = 0
    THEN [panic |-> "none", index |-> i, alloc_start |-> r.alloc_start]
    ELSE find_from(list, i + 1, size, align)

find_step(list, i, size, align, r) ==
    IF r.panic # "none" THEN [panic |-> r.panic, index |-> 0, alloc_start |-> 0]
    ELSE IF r.ok THEN [panic |-> "none", index |-> i, alloc_start |-> r.alloc_start]
    ELSE find_from(list, i + 1, size, align)

find_from(list, i, size, align) ==
    IF i > Len(list) THEN [panic |-> "none", index |-> 0, alloc_start |-> 0]
    ELSE find_step(list, i, size, align, alloc_from_region(list[i], size, align))

find_region(list, size, align) == find_from(list, 1, size, align)

\* size_align that pads to the alignment but not to the size of a ListNode.
pad_layout_no_min(size, al) ==
    IF ~LayoutValid(size, al)
    THEN [panic |-> "Adjusting alignment failed", size |-> 0, align |-> 0]
    ELSE [panic |-> "none", size |-> ((size + al - 1) \div al) * al, align |-> al]

\* layout.align_to(align_of ListNode).expect(..).pad_to_align(), then
\* size.max(size_of ListNode); al is the raised alignment.
pad_layout(size, al) ==
    IF ~LayoutValid(size, al)
    THEN [panic |-> "Adjusting alignment failed", size |-> 0, align |-> 0]
    ELSE [panic |-> "none",
          size |-> Max(((size + al - 1) \div al) * al, LL_NODE_SIZE),
          align |-> al]

size_align(size, align) == pad_layout(size, Max(align, LL_NODE_ALIGN))

\* The body of alloc's `if let Some((region, alloc_start))`: the region is
\* unlinked (rest), its tail beyond alloc_end goes back to the list.
take_region(rest, alloc_start, alloc_end, region_end) ==
    IF alloc_end > MaxWord
    THEN [panic |-> "Overflow", list |-> rest, addr |-> NULL]
    ELSE IF region_end - alloc_end > 0
    THEN [addr |-> alloc_start] @@ add_free_region(rest, alloc_end, region_end - alloc_end)
    ELSE [panic |-> "none", list |-> rest, addr |-> alloc_start]

\* alloc once find_region has answered (f).
alloc_found(list, size, f) ==
    IF f.panic # "none" THEN [panic |-> f.panic, list |-> list, addr |-> NULL]
    ELSE IF f.index = 0 THEN [panic |-> "none", list |-> list, addr |-> NULL]
    ELSE take_region(RemoveAt(list, f.index), f.alloc_start, f.alloc_start + size,
                     end_addr(list[f.index]))

\* alloc once size_align has answered (sa).
alloc_padded(list, sa) ==
    IF sa.panic # "none" THEN [panic |-> sa.panic, list |-> list, addr |-> NULL]
    ELSE alloc_found(list, sa.size, find_region(list, sa.size, sa.align))

\* GlobalAlloc::alloc of Locked<LinkedListAllocator> on the free list `list`.
ll_alloc(list, lsize, lalign) == alloc_padded(list, size_align(lsize, lalign))

\* dealloc that forgets the region instead of putting it on the list.
dealloc_padded_leak(list, ptr, sa) == [panic |-> sa.panic, list |-> list]

dealloc_padded(list, ptr, sa) ==
    IF sa.panic # "none" THEN [panic |-> sa.panic, list |-> list]
    ELSE add_free_region(list, ptr, sa.size)

\* GlobalAlloc::dealloc of Locked<LinkedListAllocator>.
ll_dealloc(list, ptr, lsize, lalign) ==
    dealloc_padded(list, ptr, size_align(lsize, lalign))

\* The allocator's state after init, alloc or dealloc returned r.
LLInitDone(r) ==
    /\ head' = r.list
    /\ panicked' = r.panic

LLInit ==
    /\ kind = "ll" /\ ~initialized
    /\ LLInitDone(add_free_region(head, Scenarios[scn].start, Scenarios[scn].size))
    /\ initialized' = TRUE
    /\ heap_start' = Scenarios[scn].start
    /\ heap_end' = Scenarios[scn].start + Scenarios[scn].size
    /\ UNCHANGED <<vgavars, align_call, kind, scn, overflow_checks, next, allocations, list_heads,
                   live, last, prev, failed>>
    /\ UNCHANGED callvars

LLAllocDone(size, align, r) ==
    IF r.panic # "none"
    THEN Panicked("alloc", size, align, r.panic) /\ UNCHANGED head
    ELSE head' = r.list /\ Returned(size, align, r.addr, "list", 0)

\* One alloc call with a layout of the set layouts.
LLAllocOf(layouts) ==
    /\ kind = "ll" /\ Running
    /\ \E l \in layouts : LLAllocDone(l.size, l.align, ll_alloc(head, l.size, l.align))
    /\ UNCHANGED <<vgavars, align_call, kind, scn, overflow_checks, initialized, heap_start, heap_end,
                   next, allocations, list_heads>>
    /\ UNCHANGED callvars

LLAlloc ==
    /\ Len(live) < MaxLive
    /\ LLAllocOf(Layouts)

LLDeallocDone(i, r) ==
    IF r.panic # "none"
    THEN Panicked("dealloc", live[i].size, live[i].align, r.panic) /\ UNCHANGED head
    ELSE head' = r.list /\ Released(i, "list", 0)

LLDealloc ==
    /\ kind = "ll" /\ Running
    /\ \E i \in DOMAIN live :
          LLDeallocDone(i, ll_dealloc(head, live[i].addr, live[i].size, live[i].align))
    /\ UNCHANGED <<vgavars, align_call, kind, scn, overflow_checks, initialized, heap_start, heap_end,
                   next, allocations, list_heads>>
    /\ UNCHANGED callvars

NextLL == LLInit \/ LLAlloc \/ LLDealloc

(* ------------------------------------------------------------------ *)
(* allocator/fixed_size_block.rs                                       *)
(* list_heads[i] is the block list of class i, front first; head is    *)
(* the free list of fallback_allocator.                                *)
(* ------------------------------------------------------------------ *)
BLOCK_SIZES == <<8, 16, 32, 64, 128, 256, 512, 1024, 2048>>

\* mem::size_of and mem::align_of of struct ListNode { next: Option<&mut ListNode> }.
FSB_NODE_SIZE == 8
FSB_NODE_ALIGN == 8

\* Option::None of list_index; Some(i) is the 1-based position i.
None == 0

\* BLOCK_SIZES.iter().position(|&s| s >= required) from the i-th entry on.
RECURSIVE position_from(_, _)
position_from(i, required_block_size) ==
    IF i > Len(BLOCK_SIZES) THEN None
    ELSE IF BLOCK_SIZES[i] >= required_block_size THEN i
    ELSE position_from(i + 1, required_block_size)

\* list_index that looks at the size of the layout only.
list_index_by_size(size, align) == position_from(1, size)

\* list_index that asks for a class larger than the required size.
list_index_strict(size, align) == position_from(1, Max(size, align) + 1)

list_index(size, align) == position_from(1, Max(size, align))

\* What the fallback allocator answered (r), as the answer of this one.
from_fallback(heads, r, route, index) ==
    [route |-> route, index |-> index, heads |-> heads] @@ r

\* alloc that refills a class with a block of the caller's layout.
alloc_index_caller_layout(heads, list, size, align, index) ==
    IF index # None /\ heads[index] # <<>>
    THEN [panic |-> "none", heads |-> [heads EXCEPT ![index] = Tail(@)],
          list |-> list, addr |-> Head(heads[index]), route |-> "pop",
          index |-> index]
    ELSE from_fallback(heads, ll_alloc(list, size, align),
                       IF index # None THEN "refill" ELSE "fallback", index)

\* alloc that refills a class with a block of the class size aligned to 1.
alloc_index_unaligned_refill(heads, list, size, align, index) ==
    IF index # None /\ heads[index] # <<>>
    THEN [panic |-> "none", heads |-> [heads EXCEPT ![index] = Tail(@)],
          list |-> list, addr |-> Head(heads[index]), route |-> "pop",
          index |-> index]
    ELSE IF index # None
    THEN from_fallback(heads, ll_alloc(list, BLOCK_SIZES[index], 1), "refill", index)
    ELSE from_fallback(heads, ll_alloc(list, size, align), "fallback", None)

\* alloc once list_index has answered (index).
alloc_index(heads, list, size, align, index) ==
    IF index # None
    THEN IF heads[index] # <<>>
         THEN [panic |-> "none", heads |-> [heads EXCEPT ![index] = Tail(@)],
               list |-> list, addr |-> Head(heads[index]), route |-> "pop",
               index |-> index]
         ELSE IF ~LayoutValid(BLOCK_SIZES[index], BLOCK_SIZES[index])
         THEN [panic |-> "called Result::unwrap() on an Err value",
               heads |-> heads, list |-> list, addr |-> NULL, route |-> "refill",
               index |-> index]
         ELSE from_fallback(heads, ll_alloc(list, BLOCK_SIZES[index], BLOCK_SIZES[index]),
                            "refill", index)
    ELSE from_fallback(heads, ll_alloc(list, size, align), "fallback", None)

\* GlobalAlloc::alloc of Locked<FixedSizeBlockAllocator>.
fsb_alloc(heads, list, size, align) ==
    alloc_index(heads, list, size, align, list_index(size, align))

\* dealloc that hands every block back to the fallback allocator.
dealloc_index_to_fallback(heads, list, ptr, size, align, index) ==
    from_fallback(heads, ll_dealloc(list, ptr, size, align),
                  IF index # None THEN "push" ELSE "fallback", index)

\* dealloc that pushes every block of a class on the list of the first class.
dealloc_index_first_class(heads, list, ptr, size, align, index) ==
    IF index # None
    THEN [panic |-> "none", heads |-> [heads EXCEPT ![1] = <<ptr>> \o @],
          list |-> list, route |-> "push", index |-> index]
    ELSE from_fallback(heads, ll_dealloc(list, ptr, size, align), "fallback", None)

\* dealloc once list_index has answered (index).
dealloc_index(heads, list, ptr, size, align, index) ==
    IF index # None
    THEN IF ~(FSB_NODE_SIZE <= BLOCK_SIZES[index])
         THEN [panic |-> "assertion failed: size_of ListNode <= BLOCK_SIZES[index]",
               heads |-> heads, list |-> list, route |-> "push", index |-> index]
         ELSE IF ~(FSB_NODE_ALIGN <= BLOCK_SIZES[index])
         THEN [panic |-> "assertion failed: align_of ListNode <= BLOCK_SIZES[index]",
               heads |-> heads, list |-> list, route |-> "push", index |-> index]
         ELSE [panic |-> "none",
               heads |-> [heads EXCEPT ![index] = <<ptr>> \o @],
               list |-> list, route |-> "push", index |-> index]
    ELSE from_fallback(heads, ll_dealloc(list, ptr, size, align), "fallback", None)

\* GlobalAlloc::dealloc of Locked<FixedSizeBlockAllocator>.
fsb_dealloc(heads, list, ptr, size, align) ==
    dealloc_index(heads, list, ptr, size, align, list_index(size, align))

FSBInit ==
    /\ kind = "fsb" /\ ~initialized
    /\ LLInitDone(add_free_region(head, Scenarios[scn].start, Scenarios[scn].size))
    /\ initialized' = TRUE
    /\ heap_start' = Scenarios[scn].start
    /\ heap_end' = Scenarios[scn].start + Scenarios[scn].size
    /\ UNCHANGED <<vgavars, align_call, kind, scn, overflow_checks, next, allocations, list_heads,
                   live, last, prev, failed>>
    /\ UNCHANGED callvars

FSBAllocDone(size, align, r) ==
    IF r.panic # "none"
    THEN Panicked("alloc", size, align, r.panic) /\ UNCHANGED <<head, list_heads>>
    ELSE /\ head' = r.list
         /\ list_heads' = r.heads
         /\ Returned(size, align, r.addr, r.route, r.index)

\* One alloc call with a layout of the set layouts.
FSBAllocOf(layouts) ==
    /\ kind = "fsb" /\ Running
    /\ \E l \in layouts :
          FSBAllocDone(l.size, l.align, fsb_alloc(list_heads, head, l.size, l.align))
    /\ UNCHANGED <<vgavars, align_call, kind, scn, overflow_checks, initialized, heap_start, heap_end,
                   next, allocations>>
    /\ UNCHANGED callvars

FSBAlloc ==
    /\ Len(live) < MaxLive
    /\ FSBAllocOf(Layouts)

FSBDeallocDone(i, r) ==
    IF r.panic # "none"
    THEN /\ Panicked("dealloc", live[i].size, live[i].align, r.panic)
         /\ UNCHANGED <<head, list_heads>>
    ELSE /\ head' = r.list
         /\ list_heads' = r.heads
         /\ Released(i, r.route, r.index)

FSBDealloc ==
    /\ kind = "fsb" /\ Running
    /\ \E i \in DOMAIN live :
          FSBDeallocDone(i, fsb_dealloc(list_heads, head, live[i].addr,
                                        live[i].size, live[i].align))
    /\ UNCHANGED <<vgavars, align_call, kind, scn, overflow_checks, initialized, heap_start, heap_end,
                   next, allocations>>
    /\ UNCHANGED callvars

NextFSB == FSBInit \/ FSBAlloc \/ FSBDealloc

(* ------------------------------------------------------------------ *)
(* allocator.rs: Locked<A> and the calls of the cores on ALLOCATOR, the *)
(* Locked<FixedSizeBlockAllocator> whose fallback_allocator is a        *)
(* Locked<LinkedListAllocator>.  A call is a sequence of steps: it      *)
(* reads and writes the allocator's state between the lock() that       *)
(* created its guard and the drop of the guard.                         *)
(* ------------------------------------------------------------------ *)
Cores == 1..NCores

NoCore == 0

\* The core that boots the kernel and calls init_heap.
BootCore == 1

\* The two Locked instances: ALLOCATOR, and the one its fallback path locks.
SelfMutex == "outer"

\* The fallback path locks ALLOCATOR itself again.
fallback_is_self == "outer"

fallback_allocator == "inner"

\* lock() that takes the mutex whether or not a guard of it is alive.
lock_unguarded(holder) == TRUE

\* Locked::lock: spin::Mutex::lock returns once no guard of the mutex is alive.
can_lock(holder) == holder = NoCore

NoReq == [op |-> "none", size |-> 0, align |-> 0, addr |-> NULL, node |-> <<>>,
          index |-> None, fsize |-> 0, falign |-> 0]

NoSnap == [heads |-> <<>>, list |-> <<>>]

\* The layouts the cores ask for: a size class, the largest class, a size
\* beyond the classes, and the largest size a Layout can have.
LockLayouts == Scenarios[3].layouts \cup {Layout(ISizeMax, 1)}

Goto(c, label) == pc' = [pc EXCEPT ![c] = label]

\* The call of core c panicked: its guards are never dropped.
CallPanicked(c, msg) ==
    /\ panicked' = msg
    /\ Goto(c, "panicked")

\* init_heap: ALLOCATOR.lock().init(HEAP_START, HEAP_SIZE), once, by the boot core.
CallInit(c) ==
    /\ c = BootCore /\ ~initialized /\ pc[c] = "idle"
    /\ req' = [req EXCEPT ![c] = [NoReq EXCEPT !.op = "init"]]
    /\ Goto(c, "lock_self")
    /\ UNCHANGED <<vgavars, align_call, kind, scn, overflow_checks, initialized, heap_start, heap_end,
                   next, allocations, head, list_heads, live, last, prev, failed,
                   panicked, mutex, snap>>

\* A core calls alloc(layout).
CallAlloc(c) ==
    /\ initialized /\ pc[c] = "idle"
    /\ Len(live) + Cardinality({d \in Cores : req[d].op = "alloc"}) < MaxLive
    /\ \E l \in LockLayouts :
          req' = [req EXCEPT ![c] = [NoReq EXCEPT !.op = "alloc", !.size = l.size,
                                                  !.align = l.align]]
    /\ Goto(c, "lock_self")
    /\ UNCHANGED <<vgavars, align_call, kind, scn, overflow_checks, initialized, heap_start, heap_end,
                   next, allocations, head, list_heads, live, last, prev, failed,
                   panicked, mutex, snap>>

\* A core calls dealloc(ptr, layout) for an allocation that is live; no other
\* core frees the same allocation.
CallDealloc(c) ==
    /\ initialized /\ pc[c] = "idle"
    /\ \E i \in DOMAIN live :
          /\ req' = [req EXCEPT ![c] = [NoReq EXCEPT !.op = "dealloc",
                                                  !.size = live[i].size,
                                                  !.align = live[i].align,
                                                  !.addr = live[i].addr]]
          /\ live' = RemoveAt(live, i)
    /\ Goto(c, "lock_self")
    /\ UNCHANGED <<vgavars, align_call, kind, scn, overflow_checks, initialized, heap_start, heap_end,
                   next, allocations, head, list_heads, last, prev, failed,
                   panicked, mutex, snap>>

\* let mut allocator = self.lock(); (ALLOCATOR.lock() in init_heap)
LockSelf(c) ==
    /\ pc[c] = "lock_self"
    /\ can_lock(mutex[SelfMutex])
    /\ mutex' = [mutex EXCEPT ![SelfMutex] = c]
    /\ snap' = [heads |-> list_heads, list |-> head]
    /\ Goto(c, "dispatch")
    /\ UNCHANGED <<vgavars, align_call, kind, scn, overflow_checks, initialized, heap_start, heap_end,
                   next, allocations, head, list_heads, live, last, prev, failed,
                   panicked, req>>

\* match list_index(&layout) of alloc, once it has answered (index):
\* list_heads[index].take() leaves None in the list head.
DispatchAlloc(c, index) ==
    IF index # None
    THEN IF list_heads[index] # <<>>
         THEN /\ req' = [req EXCEPT ![c].index = index, ![c].node = list_heads[index]]
              /\ list_heads' = [list_heads EXCEPT ![index] = <<>>]
              /\ Goto(c, "pop")
              /\ UNCHANGED panicked
         ELSE IF ~LayoutValid(BLOCK_SIZES[index], BLOCK_SIZES[index])
         THEN /\ CallPanicked(c, "called Result::unwrap() on an Err value")
              /\ UNCHANGED <<req, list_heads>>
         ELSE /\ req' = [req EXCEPT ![c].index = index,
                                    ![c].fsize = BLOCK_SIZES[index],
                                    ![c].falign = BLOCK_SIZES[index]]
              /\ Goto(c, "lock_fallback")
              /\ UNCHANGED <<list_heads, panicked>>
    ELSE /\ req' = [req EXCEPT ![c].fsize = req[c].size, ![c].falign = req[c].align]
         /\ Goto(c, "lock_fallback")
         /\ UNCHANGED <<list_heads, panicked>>

\* match list_index(&layout) of dealloc: new_node.next = list_heads[index].take().
DispatchDealloc(c, index) ==
    IF index # None
    THEN /\ req' = [req EXCEPT ![c].index = index, ![c].node = list_heads[index]]
         /\ list_heads' = [list_heads EXCEPT ![index] = <<>>]
         /\ Goto(c, "push")
         /\ UNCHANGED panicked
    ELSE /\ req' = [req EXCEPT ![c].fsize = req[c].size, ![c].falign = req[c].align]
         /\ Goto(c, "lock_fallback")
         /\ UNCHANGED <<list_heads, panicked>>

Dispatch(c) ==
    /\ pc[c] = "dispatch"
    /\ IF req[c].op = "init"
       THEN Goto(c, "lock_fallback") /\ UNCHANGED <<req, list_heads, panicked>>
       ELSE IF req[c].op = "alloc"
       THEN DispatchAlloc(c, list_index(req[c].size, req[c].align))
       ELSE DispatchDealloc(c, list_index(req[c].size, req[c].align))
    /\ UNCHANGED <<vgavars, align_call, kind, scn, overflow_checks, initialized, heap_start, heap_end,
                   next, allocations, head, live, last, prev, failed, mutex, snap>>

\* allocator.list_heads[index] = node.next.take(); node as *mut u8
Pop(c) ==
    /\ pc[c] = "pop"
    /\ list_heads' = [list_heads EXCEPT ![req[c].index] = Tail(req[c].node)]
    /\ req' = [req EXCEPT ![c].addr = Head(req[c].node)]
    /\ Goto(c, "unlock_self")
    /\ UNCHANGED <<vgavars, align_call, kind, scn, overflow_checks, initialized, heap_start, heap_end,
                   next, allocations, head, live, last, prev, failed, panicked,
                   mutex, snap>>

\* The two asserts, new_node_ptr.write(new_node), list_heads[index] = Some(..).
Push(c) ==
    /\ pc[c] = "push"
    /\ IF ~(FSB_NODE_SIZE <= BLOCK_SIZES[req[c].index])
       THEN /\ CallPanicked(c, "assertion failed: size_of ListNode <= BLOCK_SIZES[index]")
            /\ UNCHANGED list_heads
       ELSE IF ~(FSB_NODE_ALIGN <= BLOCK_SIZES[req[c].index])
       THEN /\ CallPanicked(c, "assertion failed: align_of ListNode <= BLOCK_SIZES[index]")
            /\ UNCHANGED list_heads
       ELSE /\ list_heads' = [list_heads EXCEPT
                                ![req[c].index] = <<req[c].addr>> \o req[c].node]
            /\ Goto(c, "unlock_self")
            /\ UNCHANGED panicked
    /\ UNCHANGED <<vgavars, align_call, kind, scn, overflow_checks, initialized, heap_start, heap_end,
                   next, allocations, head, live, last, prev, failed, req,
                   mutex, snap>>

\* allocator.fallback_allocator.alloc / dealloc up to their self.lock()
\* (size_align comes first), and self.fallback_allocator.lock() of init.
LockFallback(c) ==
    /\ pc[c] = "lock_fallback"
    /\ IF req[c].op # "init" /\ size_align(req[c].fsize, req[c].falign).panic # "none"
       THEN /\ CallPanicked(c, size_align(req[c].fsize, req[c].falign).panic)
            /\ UNCHANGED mutex
       ELSE /\ can_lock(mutex[fallback_allocator])
            /\ mutex' = [mutex EXCEPT ![fallback_allocator] = c]
            /\ Goto(c, "fallback")
            /\ UNCHANGED panicked
    /\ UNCHANGED <<vgavars, align_call, kind, scn, overflow_checks, initialized, heap_start, heap_end,
                   next, allocations, head, list_heads, live, last, prev, failed,
                   req, snap>>

\* The fallback allocator has answered r.
FallbackDone(c, r, addr) ==
    IF r.panic # "none"
    THEN CallPanicked(c, r.panic) /\ UNCHANGED <<head, req>>
    ELSE /\ head' = r.list
         /\ req' = [req EXCEPT ![c].addr = addr]
         /\ Goto(c, "unlock_fallback")
         /\ UNCHANGED panicked

FallbackAllocDone(c, r) == FallbackDone(c, r, r.addr)

\* The body of LinkedListAllocator's init, alloc or dealloc under its guard.
Fallback(c) ==
    /\ pc[c] = "fallback"
    /\ IF req[c].op = "init"
       THEN /\ FallbackDone(c, add_free_region(head, Scenarios[scn].start,
                                               Scenarios[scn].size), NULL)
            /\ heap_start' = Scenarios[scn].start
            /\ heap_end' = Scenarios[scn].start + Scenarios[scn].size
       ELSE /\ IF req[c].op = "alloc"
               THEN FallbackAllocDone(c, ll_alloc(head, req[c].fsize, req[c].falign))
               ELSE FallbackDone(c, ll_dealloc(head, req[c].addr, req[c].fsize,
                                               req[c].falign), req[c].addr)
            /\ UNCHANGED <<heap_start, heap_end>>
    /\ UNCHANGED <<vgavars, align_call, kind, scn, overflow_checks, initialized, next, allocations,
                   list_heads, live, last, prev, failed, mutex, snap>>

\* The guard of the fallback allocator is dropped.
UnlockFallback(c) ==
    /\ pc[c] = "unlock_fallback"
    /\ mutex' = [mutex EXCEPT ![fallback_allocator] = NoCore]
    /\ Goto(c, "unlock_self")
    /\ UNCHANGED <<vgavars, align_call, kind, scn, overflow_checks, initialized, heap_start, heap_end,
                   next, allocations, head, list_heads, live, last, prev, failed,
                   panicked, req, snap>>

\* The guard of ALLOCATOR is dropped and the call returns.
UnlockSelf(c) ==
    /\ pc[c] = "unlock_self"
    /\ mutex' = [mutex EXCEPT ![SelfMutex] = NoCore]
    /\ initialized' = (initialized \/ req[c].op = "init")
    /\ live' = IF req[c].op = "alloc" /\ req[c].addr # NULL
               THEN InsertLive(live, [addr |-> req[c].addr, size |-> req[c].size,
                                      align |-> req[c].align])
               ELSE live
    /\ req' = [req EXCEPT ![c] = NoReq]
    /\ Goto(c, "idle")
    /\ UNCHANGED <<vgavars, align_call, kind, scn, overflow_checks, heap_start, heap_end, next,
                   allocations, head, list_heads, last, prev, failed, panicked, snap>>

NextLock ==
    \E c \in Cores :
        \/ CallInit(c) \/ CallAlloc(c) \/ CallDealloc(c)
        \/ LockSelf(c) \/ Dispatch(c) \/ Pop(c) \/ Push(c)
        \/ LockFallback(c) \/ Fallback(c) \/ UnlockFallback(c) \/ UnlockSelf(c)

(* ------------------------------------------------------------------ *)
(* interrupts.rs: the callers 1..NCores as nested contexts of one core. *)
(* Context 1 is the kernel's main code; a higher context is an          *)
(* interrupt handler that calls the allocator.  A handler may start at  *)
(* any point of a lower context, since the allocator masks no           *)
(* interrupt, and the lower context resumes when the handler returns.   *)
(* ------------------------------------------------------------------ *)
\* The handler runs on another core: it suspends nothing.
on_another_core(c) == FALSE

\* Context c is interrupted: a handler above it has not returned.
Suspended(c) == \E d \in Cores : d > c /\ pc[d] # "idle"

\* The contexts that run: those no handler has interrupted.
RunningContexts == {c \in Cores : ~Suspended(c)}

NextIrq ==
    \E c \in RunningContexts :
        \/ CallInit(c) \/ CallAlloc(c) \/ CallDealloc(c)
        \/ LockSelf(c) \/ Dispatch(c) \/ Pop(c) \/ Push(c)
        \/ LockFallback(c) \/ Fallback(c) \/ UnlockFallback(c) \/ UnlockSelf(c)

(* ------------------------------------------------------------------ *)
(* list_index over the layouts of a small allocation                   *)
(* ------------------------------------------------------------------ *)
\* Binary logarithm of the largest alignment list_index is probed with.
MaxProbeAlignLog == 12

ProbeLayouts ==
    {l \in [size : 1..MaxProbeSize, align : {Pow2(k) : k \in 0..MaxProbeAlignLog}] :
        LayoutValid(l.size, l.align)}

\* The first call on the allocator after init: an alloc of any probed layout.
IndexAlloc ==
    /\ last.op = "none"
    /\ FSBAllocOf(ProbeLayouts)

NextIndex == FSBInit \/ IndexAlloc \/ FSBDealloc

(* ------------------------------------------------------------------ *)
(* A run of allocs of one fixed layout with no dealloc, up to the       *)
(* first alloc that returns the failure sentinel.                       *)
(* ------------------------------------------------------------------ *)
\* Longest run of allocs of one layout.
MaxRun == 12

\* The layout of the run: any layout for the first alloc, the same from then on.
FixedLayouts ==
    {l \in Layouts : last.op = "none" \/ (l.size = last.size /\ l.align = last.align)}

ExhaustAlloc ==
    /\ failed = {} /\ Len(live) < MaxRun
    /\ \/ BumpAllocOf(FixedLayouts)
       \/ LLAllocOf(FixedLayouts)
       \/ FSBAllocOf(FixedLayouts)

NextExhaust == BumpInit \/ LLInit \/ FSBInit \/ ExhaustAlloc

(* ------------------------------------------------------------------ *)
(* align_up called on its own with an address and a power of two.      *)
(* ------------------------------------------------------------------ *)
\* Addresses are probed up to this distance from both ends of the address
\* space and from every power of two.
MaxProbeDist == 40

AlignAddrs ==
    {a \in 0..MaxWord :
        \/ a <= MaxProbeDist
        \/ MaxWord - a <= MaxProbeDist
        \/ \E k \in 0..(WordBits - 1) :
              a - Pow2(k) \in (0 - MaxProbeDist)..MaxProbeDist}

AlignArgs == [addr : AlignAddrs, align : {Pow2(k) : k \in 0..(WordBits - 1)}]

\* The call returned (or panicked with) r.
AlignUpDone(r) ==
    align_call' = [align_call EXCEPT !.called = TRUE, !.panic = r.panic, !.val = r.val]

AlignUp ==
    /\ ~align_call.called
    /\ AlignUpDone(align_up(align_call.addr, align_call.align))
    /\ UNCHANGED <<kind, scn, overflow_checks, initialized, heap_start, heap_end,
                   next, allocations, head, list_heads, live, last, prev, failed,
                   panicked>>
    /\ UNCHANGED callvars
    /\ UNCHANGED vgavars

NextAlign == AlignUp

(* ------------------------------------------------------------------ *)
(* The allocators as constructed by new(), before init.                *)
(* ------------------------------------------------------------------ *)
(***************************************************************************)
(* The VGA text writer (vga_buffer.rs).  The screen is scaled down: the    *)
(* code has 25 rows of 80 columns.  A byte is its code, a cell holds the   *)
(* ascii_character of its ScreenChar; the colour of a cell is the same     *)
(* constant everywhere and is left out.                                    *)
(***************************************************************************)
BUFFER_HEIGHT == 3

BUFFER_WIDTH == 2

\* b'\n'
NEWLINE == 10

\* b' ', the character of a cleared cell
BLANK == 32

\* 0xfe, written in place of an unprintable byte
PLACEHOLDER == 254

Rows == 0..(BUFFER_HEIGHT - 1)

Cols == 0..(BUFFER_WIDTH - 1)

BlankRow == [col \in Cols |-> BLANK]

\* A Writer; events lists what the running write_byte did to the buffer, and
\* panic is the panic of an index outside the array.
Writer(col, chars) ==
    [column_position |-> col, buffer |-> chars, events |-> <<>>, panic |-> "none"]

\* Writer::clear_row.
clear_row(w, row) ==
    IF row \notin Rows
    THEN [w EXCEPT !.panic = "index out of bounds"]
    ELSE [w EXCEPT !.buffer[row] = BlankRow,
                   !.events = Append(@, [op |-> "clear_row", row |-> row, col |-> 0])]

\* The loop of new_line: row r takes the cells of row r + 1, from the top down.
shift_rows(chars) ==
    [row \in Rows |-> IF row + 1 \in Rows THEN chars[row + 1] ELSE chars[row]]

\* A new_line that clears the last row and goes back to column 0 without
\* moving the rows up.
new_line_no_shift(w) ==
    [clear_row(w, BUFFER_HEIGHT - 1) EXCEPT !.column_position = 0]

\* Writer::new_line.
new_line(w) ==
    [clear_row([w EXCEPT !.buffer = shift_rows(w.buffer)], BUFFER_HEIGHT - 1)
        EXCEPT !.column_position = 0]

\* The second half of write_byte: the byte goes to the last row at
\* column_position, which then moves right.
write_cell(w, byte) ==
    IF w.column_position \notin Cols
    THEN [w EXCEPT !.panic = "index out of bounds"]
    ELSE [w EXCEPT !.buffer[BUFFER_HEIGHT - 1][w.column_position] = byte,
                   !.column_position = @ + 1,
                   !.events = Append(@, [op |-> "write", row |-> BUFFER_HEIGHT - 1,
                                         col |-> w.column_position])]

\* A write_byte that never looks whether the line is full.
write_byte_unchecked(w, byte) ==
    IF byte = NEWLINE THEN new_line(w) ELSE write_cell(w, byte)

\* Writer::write_byte.
write_byte(w, byte) ==
    IF byte = NEWLINE
    THEN new_line(w)
    ELSE IF w.column_position >= BUFFER_WIDTH
         THEN write_cell(new_line(w), byte)
         ELSE write_cell(w, byte)

\* The match of write_string: a printable byte or a newline is written as it
\* is, any other byte as the placeholder.
printable(byte) ==
    IF byte \in 32..126 \/ byte = NEWLINE THEN byte ELSE PLACEHOLDER

\* The bytes the callers pass to write_byte.
ProbeBytes == {NEWLINE, 97}

\* The strings the callers pass to write_string.
ProbeStrings == {<<200>>, <<97, 97>>, <<97, NEWLINE>>, <<NEWLINE, 200, 97>>}

\* The variables of the allocators, which the writer never touches.
heapvars == <<kind, scn, overflow_checks, initialized, heap_start, heap_end, next,
              allocations, head, list_heads, live, last, prev, failed>>

printvars == <<interrupts_enabled, print_pc, print_req, print_mutex>>

WriterNow == Writer(column_position, buffer)

\* A call of write_byte returned w, or panicked.
WriteDone(w) ==
    /\ column_position' = w.column_position
    /\ buffer' = w.buffer
    /\ written' = w.events
    /\ panicked' = w.panic
    /\ UNCHANGED <<heapvars, callvars, align_call, test_string, printvars>>

\* A caller writes one byte.
WriteByte ==
    /\ panicked = "none"
    /\ pending = <<>>
    /\ \E byte \in ProbeBytes : WriteDone(write_byte(WriterNow, byte))
    /\ UNCHANGED pending

\* A caller enters write_string.
WriteString ==
    /\ panicked = "none"
    /\ pending = <<>>
    /\ \E s \in ProbeStrings : pending' = s
    /\ UNCHANGED <<heapvars, callvars, align_call, test_string, printvars,
                   column_position, buffer, written, panicked>>

\* One round of the loop of write_string.
WriteStringByte ==
    /\ panicked = "none"
    /\ pending # <<>>
    /\ WriteDone(write_byte(WriterNow, printable(Head(pending))))
    /\ pending' = Tail(pending)

NextVga == WriteByte \/ WriteString \/ WriteStringByte

\* The static WRITER and the callers of the print macros as they start.
WriterConstructed ==
    /\ column_position = 0
    /\ buffer = [row \in Rows |-> BlankRow]
    /\ written = <<>>
    /\ pending = <<>>
    /\ test_string = <<>>


(***************************************************************************)
(* The print macros and the hardware interrupts of one core.  _print runs  *)
(* its closure under without_interrupts; the closure locks the printer,    *)
(* writes and drops the guard at the end of its statement.  A handler of   *)
(* the x86-interrupt ABI starts with interrupts disabled, and iretq puts   *)
(* the interrupted flags back.                                             *)
(***************************************************************************)
\* The code the core was running, and the handlers that print.
Kernel == "kernel"

Handlers == {"timer", "keyboard"}

Contexts == {Kernel} \cup Handlers

\* The two printers behind a spin::Mutex.
Printers == {"WRITER", "SERIAL1"}

NoContext == "nobody"

NoPrint == [printer |-> "WRITER", saved |-> FALSE]

\* A cli that leaves the interrupt flag as it was.
disable_nothing(flag) == FALSE \/ flag

\* x86_64::instructions::interrupts::disable: the flag after cli.
disable(flag) == FALSE

\* x86_64::instructions::interrupts::enable: the flag after sti.
enable(flag) == TRUE

\* A handler is on the core: the code it interrupted waits for its iretq.
InHandler == \E h \in Handlers : print_pc[h] # "idle"

\* The contexts whose next instruction the core can execute.
OnCore == IF InHandler THEN {h \in Handlers : print_pc[h] # "idle"} ELSE {Kernel}

\* What print!/println! hands to write_fmt here: the timer handler prints a
\* dot, the keyboard handler the character of the key (here the dot key), the
\* kernel ends a line.
PrintedByte(c) == IF c \in Handlers THEN 46 ELSE NEWLINE

PrintGoto(c, label) == print_pc' = [print_pc EXCEPT ![c] = label]

PrintFrame == UNCHANGED <<heapvars, callvars, align_call, pending, test_string>>

WriterFrame == UNCHANGED <<column_position, buffer, written, panicked>>

\* lib.rs init: the kernel enables interrupts once the PICs are set up.
EnableInterrupts ==
    /\ panicked = "none"
    /\ Kernel \in OnCore /\ print_pc[Kernel] = "idle"
    /\ ~interrupts_enabled
    /\ interrupts_enabled' = enable(interrupts_enabled)
    /\ UNCHANGED <<print_pc, print_req, print_mutex>>
    /\ PrintFrame /\ WriterFrame

\* The kernel calls vga_buffer::_print or serial::_print.
PrintCall ==
    /\ panicked = "none"
    /\ Kernel \in OnCore /\ print_pc[Kernel] = "idle"
    /\ \E m \in Printers :
          print_req' = [print_req EXCEPT ![Kernel] = [printer |-> m, saved |-> FALSE]]
    /\ PrintGoto(Kernel, "are_enabled")
    /\ UNCHANGED <<interrupts_enabled, print_mutex>>
    /\ PrintFrame /\ WriterFrame

\* The timer or the keyboard raises its interrupt: the core takes it between
\* two instructions when the flag is set, and enters the handler with the
\* flag cleared.  The timer handler prints at once; the keyboard handler
\* prints when the scancode completes a key.
Interrupt(h) ==
    /\ panicked = "none"
    /\ interrupts_enabled
    /\ ~InHandler
    /\ interrupts_enabled' = FALSE
    /\ \/ PrintGoto(h, "are_enabled")
       \/ h = "keyboard" /\ PrintGoto(h, "eoi")
    /\ print_req' = [print_req EXCEPT ![h] = NoPrint]
    /\ UNCHANGED print_mutex
    /\ PrintFrame /\ WriterFrame

\* without_interrupts reads the flag.
AreEnabled(c) ==
    /\ panicked = "none"
    /\ c \in OnCore /\ print_pc[c] = "are_enabled"
    /\ print_req' = [print_req EXCEPT ![c].saved = interrupts_enabled]
    /\ PrintGoto(c, "disable")
    /\ UNCHANGED <<interrupts_enabled, print_mutex>>
    /\ PrintFrame /\ WriterFrame

\* without_interrupts disables interrupts if they were enabled.
Disable(c) ==
    /\ panicked = "none"
    /\ c \in OnCore /\ print_pc[c] = "disable"
    /\ interrupts_enabled' =
          IF print_req[c].saved THEN disable(interrupts_enabled) ELSE interrupts_enabled
    /\ PrintGoto(c, "lock")
    /\ UNCHANGED <<print_req, print_mutex>>
    /\ PrintFrame /\ WriterFrame

\* The closure takes the spin lock of its printer; a taken lock makes it spin.
PrintLock(c) ==
    /\ panicked = "none"
    /\ c \in OnCore /\ print_pc[c] = "lock"
    /\ print_mutex[print_req[c].printer] = NoContext
    /\ print_mutex' = [print_mutex EXCEPT ![print_req[c].printer] = c]
    /\ PrintGoto(c, "write_fmt")
    /\ UNCHANGED <<interrupts_enabled, print_req>>
    /\ PrintFrame /\ WriterFrame

\* write_fmt: the VGA writer gets the bytes through write_string, the serial
\* port sends them out.
WriteFmtDone(c, w) ==
    /\ column_position' = w.column_position
    /\ buffer' = w.buffer
    /\ written' = w.events
    /\ panicked' = w.panic
    /\ PrintGoto(c, IF w.panic = "none" THEN "unlock" ELSE "panicked")

WriteFmt(c) ==
    /\ panicked = "none"
    /\ c \in OnCore /\ print_pc[c] = "write_fmt"
    /\ IF print_req[c].printer = "WRITER"
       THEN WriteFmtDone(c, write_byte(WriterNow, printable(PrintedByte(c))))
       ELSE PrintGoto(c, "unlock") /\ WriterFrame
    /\ UNCHANGED <<interrupts_enabled, print_req, print_mutex>>
    /\ PrintFrame

\* The guard is dropped at the end of the statement.
PrintUnlock(c) ==
    /\ panicked = "none"
    /\ c \in OnCore /\ print_pc[c] = "unlock"
    /\ print_mutex' = [print_mutex EXCEPT ![print_req[c].printer] = NoContext]
    /\ PrintGoto(c, "enable")
    /\ UNCHANGED <<interrupts_enabled, print_req>>
    /\ PrintFrame /\ WriterFrame

\* without_interrupts enables interrupts again if they were enabled; _print
\* returns, in a handler to the end-of-interrupt notification.
Enable(c) ==
    /\ panicked = "none"
    /\ c \in OnCore /\ print_pc[c] = "enable"
    /\ interrupts_enabled' =
          IF print_req[c].saved THEN enable(interrupts_enabled) ELSE interrupts_enabled
    /\ PrintGoto(c, IF c = Kernel THEN "idle" ELSE "eoi")
    /\ UNCHANGED <<print_req, print_mutex>>
    /\ PrintFrame /\ WriterFrame

\* The handler notifies the PICs and returns; iretq restores the flags of the
\* interrupted code, which had interrupts enabled.
EndOfInterrupt(h) ==
    /\ panicked = "none"
    /\ h \in OnCore /\ print_pc[h] = "eoi"
    /\ interrupts_enabled' = TRUE
    /\ PrintGoto(h, "idle")
    /\ UNCHANGED <<print_req, print_mutex>>
    /\ PrintFrame /\ WriterFrame

NextPrint ==
    \/ EnableInterrupts
    \/ PrintCall
    \/ \E h \in Handlers : Interrupt(h) \/ EndOfInterrupt(h)
    \/ \E c \in Contexts :
          \/ AreEnabled(c)
          \/ Disable(c)
          \/ PrintLock(c)
          \/ WriteFmt(c)
          \/ PrintUnlock(c)
          \/ Enable(c)

\* The core and the printers' locks as the kernel starts.
PrintConstructed ==
    /\ interrupts_enabled = FALSE
    /\ print_pc = [c \in Contexts |-> "idle"]
    /\ print_req = [c \in Contexts |-> NoPrint]
    /\ print_mutex = [m \in Printers |-> NoContext]

\* The allocators and their callers as they start.
AllocatorConstructed ==
    /\ initialized = FALSE
    /\ heap_start = 0 /\ heap_end = 0 /\ next = 0 /\ allocations = 0
    /\ head = <<>>
    /\ list_heads = [i \in DOMAIN BLOCK_SIZES |-> <<>>]
    /\ live = <<>>
    /\ last = NoCall /\ prev = NoCall
    /\ failed = {}
    /\ panicked = "none"
    /\ pc = [c \in Cores |-> "idle"]
    /\ req = [c \in Cores |-> NoReq]
    /\ mutex = [m \in {SelfMutex, fallback_allocator} |-> NoCore]
    /\ snap = NoSnap

Constructed == AllocatorConstructed /\ WriterConstructed /\ PrintConstructed

\* No call of align_up is under test.
NoAlign == [addr |-> 0, align |-> 1, called |-> FALSE, panic |-> "none", val |-> 0]

Init ==
    /\ align_call = NoAlign
    /\ scn \in DOMAIN Scenarios
    /\ kind \in Scenarios[scn].kinds
    /\ overflow_checks \in BOOLEAN
    /\ Constructed

Next == NextBump \/ NextLL \/ NextFSB

\* One caller at a time on one of the three allocators.
Spec == Init /\ [][Next]_vars

InitIndex ==
    /\ align_call = NoAlign
    /\ scn = 3 /\ kind = "fsb"
    /\ overflow_checks \in BOOLEAN
    /\ Constructed

\* One alloc of a probed layout on a fresh size-classed allocator, then its dealloc.
SpecIndex == InitIndex /\ [][NextIndex]_vars

\* The caller goes on calling alloc until it gets the failure sentinel.
SpecExhaust == Init /\ [][NextExhaust]_vars

InitLock ==
    /\ align_call = NoAlign
    /\ scn = 3 /\ kind = "fsb"
    /\ overflow_checks \in BOOLEAN
    /\ Constructed

\* The cores call the global allocator concurrently.
SpecLock == InitLock /\ [][NextLock]_vars

\* The kernel's code and interrupt handlers on one core call the allocator.
SpecIrq == InitLock /\ [][NextIrq]_vars

InitAlign ==
    /\ \E x \in AlignArgs :
          align_call = [NoAlign EXCEPT !.addr = x.addr, !.align = x.align]
    /\ scn = 3 /\ kind = "bump"
    /\ overflow_checks \in BOOLEAN
    /\ Constructed

\* One call of align_up with any probed address and any power of two.
SpecAlign == InitAlign /\ [][NextAlign]_vars

InitVga ==
    /\ align_call = NoAlign
    /\ scn = 3 /\ kind = "bump"
    /\ overflow_checks = FALSE
    /\ Constructed

\* Callers write any bytes and strings through the Writer, one at a time.
SpecVga == InitVga /\ [][NextVga]_vars

\* The kernel prints to the screen and to the serial port while the timer and
\* the keyboard interrupt it.
SpecPrint == InitVga /\ [][NextPrint]_vars

\* The instructions of one context: its _print call and, in a handler, the
\* return.
ContextStep(c) ==
    \/ AreEnabled(c)
    \/ Disable(c)
    \/ PrintLock(c)
    \/ WriteFmt(c)
    \/ PrintUnlock(c)
    \/ Enable(c)
    \/ c \in Handlers /\ EndOfInterrupt(c)

\* The core goes on executing the context it is in, and the interrupted code
\* gets to run between two interrupts: a handler returns after a few
\* instructions and the timer ticks far apart.
FairPrint == \A c \in Contexts : SF_vars(ContextStep(c))

SpecPrintFair == SpecPrint /\ FairPrint

\* The strings of printable characters that fit on one line.
TestStrings == UNION {[1..n -> {97, 98}] : n \in 0..BUFFER_WIDTH}

\* What the screen shows when the test starts: rows left by earlier output.
TestScreens == [Rows -> {BlankRow, [col \in Cols |-> 120]}]

\* test_println_output: writeln!(writer, "\n{}", s) hands "\n", s and "\n" to
\* write_string, with the lock held and interrupts disabled.
InitVgaTest ==
    /\ align_call = NoAlign
    /\ scn = 3 /\ kind = "bump"
    /\ overflow_checks = FALSE
    /\ AllocatorConstructed /\ PrintConstructed
    /\ column_position \in 0..BUFFER_WIDTH
    /\ buffer \in TestScreens
    /\ written = <<>>
    /\ test_string \in TestStrings
    /\ pending = <<NEWLINE>> \o test_string \o <<NEWLINE>>

NextVgaTest == WriteStringByte

\* The test writes its line on any screen.
SpecVgaTest == InitVgaTest /\ [][NextVgaTest]_vars

(* ------------------------------------------------------------------ *)
(* Properties                                                          *)
(* ------------------------------------------------------------------ *)
Disjoint(a, b) == a.addr + a.size <= b.addr \/ b.addr + b.size <= a.addr

\* C1: the ranges [addr, addr + size) of the live allocations of each of the
\* three allocators are pairwise disjoint.
NoOverlap == \A i, j \in DOMAIN live : i < j => Disjoint(live[i], live[j])

\* C2: every address that alloc returned for a layout (and so every live
\* allocation, the last one included, popped from a class list or not) is a
\* multiple of the layout's align.
Alignment ==
    /\ \A i \in DOMAIN live : live[i].addr % live[i].align = 0
    /\ (last.op = "alloc" /\ last.addr # NULL) => last.addr % last.align = 0

\* C2's case: the size-classed allocator popped a block for a request aligned
\* to 16 from a class list, on a heap whose start is not a multiple of 16.
AlignmentWitness ==
    /\ kind = "fsb" /\ last.op = "alloc" /\ last.route = "pop"
    /\ last.align = 16 /\ last.addr # NULL
    /\ heap_start % 16 # 0

\* C3: every live allocation lies inside [heap_start, heap_start + heap_size).
InBounds ==
    \A i \in DOMAIN live :
        heap_start <= live[i].addr /\ live[i].addr + live[i].size <= heap_end

\* C6: no alloc (or dealloc) call ends in a panic.
NeverPanics == panicked = "none"

\* C7 as stated: in the free-list and the size-classed allocator, after an
\* alloc of a layout has failed, a dealloc of a live allocation of equal size
\* followed at once by an alloc of that layout succeeds.
RecoveryEqualSize ==
    (/\ kind \in {"ll", "fsb"}
     /\ last.op = "alloc" /\ last.retry
     /\ prev.op = "dealloc" /\ prev.size = last.size)
    => last.addr # NULL

\* C7 amended: an alloc that follows at once the dealloc of a live allocation
\* of the same size and the same alignment succeeds, whether or not an alloc
\* of that layout has failed before.
RecoverySameLayout ==
    (/\ kind \in {"ll", "fsb"}
     /\ last.op = "alloc"
     /\ prev.op = "dealloc" /\ prev.size = last.size /\ prev.align = last.align)
    => last.addr # NULL

\* C7's case: the alloc of the layout had failed, an allocation of that layout
\* was freed, and the alloc of the layout then succeeded.
RecoveryWitness ==
    /\ kind \in {"ll", "fsb"}
    /\ last.op = "alloc" /\ last.retry /\ last.addr # NULL
    /\ prev.op = "dealloc" /\ prev.size = last.size /\ prev.align = last.align

\* C8: on the bump allocator, when every allocation of a run of successful
\* allocs has been freed again, in whatever order, next is heap_start and the
\* counter is 0.
BumpReset ==
    (kind = "bump" /\ initialized /\ failed = {} /\ live = <<>>)
    => (next = heap_start /\ allocations = 0)

\* C8's case: several allocations were made and the one freed last was not
\* the first of them.
BumpResetWitness ==
    /\ kind = "bump" /\ scn = 2 /\ failed = {} /\ live = <<>>
    /\ last.op = "dealloc" /\ last.addr > heap_start

PaddedSize(call) == size_align(call.size, call.align).size

\* C10: in the free-list allocator a dealloc adds exactly one node, the freed
\* region, and merges nothing; an alloc removes at most one node and its
\* block lies inside one single region of the list as it was before the call.
\* With A and C of 100 bytes live around the freed B, a block of 150 bytes
\* lies behind C.
NoCoalescing ==
    /\ [][(kind = "ll" /\ initialized) =>
            /\ (last'.op = "dealloc" /\ last'.route # "panic") =>
                  head' = <<Region(last'.addr, PaddedSize(last'))>> \o head
            /\ (last'.op = "alloc" /\ last'.route # "panic") =>
                  /\ Len(head') >= Len(head) - 1
                  /\ last'.addr # NULL =>
                        \E i \in DOMAIN head :
                            /\ start_addr(head[i]) <= last'.addr
                            /\ last'.addr + PaddedSize(last') <= end_addr(head[i])]_vars
    /\ [](kind = "ll" /\ scn = 2 =>
            \A a, c, d \in DOMAIN live :
                (/\ live[a].addr = heap_start /\ live[a].size = 100
                 /\ live[c].addr = heap_start + 208 /\ live[c].size = 100
                 /\ live[d].size = 150)
                => live[d].addr >= heap_start + 312)

\* C10's case: A and C are live, B between them is free, and the block of
\* 150 bytes was served from the region behind C.
NoCoalescingWitness ==
    /\ kind = "ll" /\ scn = 2
    /\ \E a, c, d \in DOMAIN live :
          /\ live[a].addr = heap_start /\ live[a].size = 100
          /\ live[c].addr = heap_start + 208 /\ live[c].size = 100
          /\ live[d].size = 150 /\ live[d].addr = heap_start + 312
    /\ \E i \in DOMAIN head : head[i] = Region(heap_start + 104, 104)
    /\ last.op = "alloc" /\ last.size = 150

\* The calls whose guard of ALLOCATOR is alive.
SelfCS == {"dispatch", "pop", "push", "lock_fallback", "fallback",
           "unlock_fallback", "unlock_self", "panicked"}

\* The calls whose guard of the fallback allocator is alive.
FallbackCS == {"fallback", "unlock_fallback"}

\* What the call of core c does to the allocator state snap when no other call
\* runs between its first step and its last.
SerialOutcome(c) ==
    IF req[c].op = "init"
    THEN [heads |-> snap.heads, addr |-> NULL]
         @@ add_free_region(snap.list, Scenarios[scn].start, Scenarios[scn].size)
    ELSE IF req[c].op = "alloc"
    THEN fsb_alloc(snap.heads, snap.list, req[c].size, req[c].align)
    ELSE [addr |-> req[c].addr]
         @@ fsb_dealloc(snap.heads, snap.list, req[c].addr, req[c].size, req[c].align)

\* C4: at most one call is between lock() and the drop of the guard on
\* ALLOCATOR, and at most one on its fallback allocator; when a call drops
\* the guard of ALLOCATOR, the allocator state and the call's result are those
\* of the call run alone on the state it found when it took the lock.
MutualExclusion ==
    /\ \A c, d \in Cores : c # d => ~(pc[c] \in SelfCS /\ pc[d] \in SelfCS)
    /\ \A c, d \in Cores : c # d => ~(pc[c] \in FallbackCS /\ pc[d] \in FallbackCS)
    /\ \A c \in Cores :
          pc[c] = "unlock_self" =>
             /\ list_heads = SerialOutcome(c).heads
             /\ head = SerialOutcome(c).list
             /\ req[c].addr = SerialOutcome(c).addr

\* C4's case: a core has taken the head of a class list and not yet written
\* the list back, while another core's alloc of the same class waits for the lock.
MutualExclusionWitness ==
    \E c, d \in Cores :
        /\ c # d
        /\ pc[c] = "pop" /\ pc[d] = "lock_self"
        /\ req[d].op = "alloc"
        /\ list_index(req[d].size, req[d].align) = req[c].index

Waiting(c) ==
    \/ pc[c] = "lock_self" /\ mutex[SelfMutex] # NoCore
    \/ pc[c] = "lock_fallback" /\ mutex[fallback_allocator] # NoCore

\* C5: a call takes the lock of ALLOCATOR first and the lock of the fallback
\* allocator second, and never a lock it holds; whenever calls are in
\* flight, one of them is not waiting for a lock.
NoSelfDeadlock ==
    /\ \A c \in Cores : mutex[fallback_allocator] = c => mutex[SelfMutex] = c
    /\ \A c \in Cores : pc[c] = "lock_self" =>
          (mutex[SelfMutex] # c /\ mutex[fallback_allocator] # c)
    /\ \A c \in Cores : pc[c] = "lock_fallback" =>
          (mutex[SelfMutex] = c /\ mutex[fallback_allocator] # c)
    /\ (\E c \in Cores : pc[c] # "idle") =>
          (\E c \in Cores : pc[c] # "idle" /\ ~Waiting(c))

\* C5's case: a core is on the fallback path with both guards alive while
\* every other core waits for the lock of ALLOCATOR.
NoSelfDeadlockWitness ==
    \E c \in Cores :
        /\ pc[c] = "fallback" /\ req[c].op = "alloc"
        /\ mutex[SelfMutex] = c /\ mutex[fallback_allocator] = c
        /\ \A d \in Cores \ {c} : pc[d] = "lock_self"

\* The position in BLOCK_SIZES of the smallest class that holds `required`.
SmallestClass(required) ==
    IF \A i \in DOMAIN BLOCK_SIZES : BLOCK_SIZES[i] < required
    THEN None
    ELSE CHOOSE i \in DOMAIN BLOCK_SIZES :
            /\ BLOCK_SIZES[i] >= required
            /\ \A j \in DOMAIN BLOCK_SIZES : BLOCK_SIZES[j] >= required => i <= j

\* C9: the class an alloc or dealloc is served by is the smallest class of
\* BLOCK_SIZES that is >= max(size, align), none when that exceeds 2048:
\* size 1..8 with align <= 8 is the class of 8, (2048, 1) the class of 2048,
\* size 2049 has no class and goes to the fallback allocator.
SizeClassRounding ==
    (last.op \in {"alloc", "dealloc"} /\ last.route # "panic") =>
        /\ last.index = SmallestClass(Max(last.size, last.align))
        /\ last.index = list_index(last.size, last.align)
        /\ (last.index = None) <=> (Max(last.size, last.align) > 2048)
        /\ (last.index = None) <=> (last.route = "fallback")
        /\ (last.size \in 1..8 /\ last.align <= 8) => BLOCK_SIZES[last.index] = 8
        /\ (last.size = 2048 /\ last.align = 1) => BLOCK_SIZES[last.index] = 2048
        /\ last.size = 2049 => (last.index = None /\ last.route = "fallback")
        /\ (last.op = "dealloc" /\ last.index # None) =>
              list_heads = [i \in DOMAIN BLOCK_SIZES |->
                              IF i = last.index THEN <<last.addr>> ELSE <<>>]

\* C9's case: a block of (2048, 1) came from the fallback allocator for the
\* class of 2048 and its dealloc put it on that class's list.
SizeClassRoundingWitness ==
    /\ last.op = "dealloc" /\ last.size = 2048 /\ last.align = 1
    /\ last.route = "push" /\ BLOCK_SIZES[last.index] = 2048
    /\ list_heads[last.index] = <<last.addr>>

\* C11: an alloc that follows at once the dealloc of the block that the alloc
\* of the same layout just before had returned gives the same address again:
\* in the size-classed allocator when a size class applies to the layout, in
\* the bump allocator when nothing else was live.
RoundTrip ==
    (/\ last.op = "alloc" /\ last.route # "panic"
     /\ prev.op = "dealloc" /\ prev.fresh
     /\ prev.size = last.size /\ prev.align = last.align
     /\ \/ kind = "fsb" /\ list_index(last.size, last.align) # None
        \/ kind = "bump" /\ \A i \in DOMAIN live : live[i].addr = last.addr)
    => last.addr = prev.addr

\* C11's case: the block came back from a class list after its round trip
\* while another allocation was live.
RoundTripWitness ==
    /\ kind = "fsb" /\ last.op = "alloc" /\ last.route = "pop"
    /\ prev.op = "dealloc" /\ prev.fresh
    /\ prev.size = last.size /\ prev.align = last.align
    /\ last.addr = prev.addr
    /\ Len(live) > 1

RECURSIVE SumSizes(_, _)
SumSizes(seq, i) == IF i > Len(seq) THEN 0 ELSE seq[i].size + SumSizes(seq, i + 1)

\* C12: a run of allocs of one layout with no dealloc gets the failure
\* sentinel in the end, and the sizes of the blocks handed out until then sum
\* to no more than the length of the heap: every call of the run returns, and
\* the run is over, by the sentinel, before it has made MaxRun allocations.
Exhaustion ==
    initialized =>
        /\ SumSizes(live, 1) <= heap_end - heap_start
        /\ panicked = "none"
        /\ Len(live) < MaxRun

\* C12's case: the run has handed out several blocks and then got the
\* failure sentinel.
ExhaustionWitness ==
    /\ failed # {} /\ Len(live) > 2
    /\ last.op = "alloc" /\ last.addr = NULL

\* The class lists other than that of class index are the same after the step.
OtherListsUnchanged(index) ==
    \A j \in DOMAIN BLOCK_SIZES : j # index => list_heads'[j] = list_heads[j]

\* C13: a dealloc of the size-classed allocator whose layout has a class puts
\* the block in front of that class's list and changes neither the free list
\* of the fallback allocator nor another class list; an alloc whose class
\* list is not empty takes the first block of that list and changes nothing
\* else.
BlocksStayInClass ==
    [][(kind = "fsb" /\ initialized /\ last'.route # "panic"
        /\ list_index(last'.size, last'.align) # None) =>
          /\ last'.op = "dealloc" =>
                /\ list_heads'[list_index(last'.size, last'.align)] =
                      <<last'.addr>> \o list_heads[list_index(last'.size, last'.align)]
                /\ OtherListsUnchanged(list_index(last'.size, last'.align))
                /\ head' = head
          /\ (last'.op = "alloc"
              /\ list_heads[list_index(last'.size, last'.align)] # <<>>) =>
                /\ last'.addr = Head(list_heads[list_index(last'.size, last'.align)])
                /\ list_heads'[list_index(last'.size, last'.align)] =
                      Tail(list_heads[list_index(last'.size, last'.align)])
                /\ OtherListsUnchanged(list_index(last'.size, last'.align))
                /\ head' = head]_vars

\* C13's case: a class-sized dealloc put a second block on its class list
\* while the fallback allocator had free regions and another class had a block.
BlocksStayInClassWitness ==
    /\ kind = "fsb" /\ last.op = "dealloc" /\ last.route = "push"
    /\ Len(list_heads[last.index]) >= 2
    /\ head # <<>>
    /\ \E j \in DOMAIN BLOCK_SIZES : j # last.index /\ list_heads[j] # <<>>

\* The request of the last call was served from a size class.
ServedFromClass ==
    /\ last.op = "alloc" /\ last.addr # NULL /\ last.index # None

BumpMonotone ==
    [][(kind = "bump" /\ initialized) =>
          /\ next' < next => (last'.op = "dealloc" /\ allocations' = 0)
          /\ (last'.op = "dealloc" /\ last'.route # "panic" /\ allocations' > 0) =>
                next' = next
          /\ (last'.op = "alloc" /\ last'.addr # NULL) =>
                (next' >= next /\ last'.addr >= next)]_vars

\* C15's case: a block was freed while another stayed live, and the alloc
\* after it was served behind both.
BumpMonotoneWitness ==
    /\ kind = "bump" /\ failed = {}
    /\ last.op = "alloc" /\ last.addr # NULL
    /\ prev.op = "dealloc" /\ prev.addr < last.addr
    /\ \E i \in DOMAIN live : live[i].addr < last.addr
    /\ allocations = 2

\* Handler d has interrupted the call of context c, which holds the lock of
\* ALLOCATOR, and calls the allocator itself.
Reentered(c, d) ==
    /\ c < d
    /\ mutex[SelfMutex] = c
    /\ pc[d] = "lock_self"

\* C16: once a handler calls alloc or dealloc on the core whose interrupted
\* call holds the lock of ALLOCATOR, the handler stays in lock() and the
\* interrupted call stays where it was interrupted, the lock still held.
ReentrancyDeadlock ==
    [][\A c, d \in Cores :
          Reentered(c, d) =>
             (pc'[c] = pc[c] /\ pc'[d] = pc[d] /\ mutex'[SelfMutex] = c)]_vars

\* C16's case: the handler of the highest context waits for the lock that the
\* call it interrupted took before it was interrupted.
ReentrancyDeadlockWitness ==
    \E c \in Cores :
        /\ Reentered(c, NCores)
        /\ pc[c] \in {"dispatch", "pop", "push", "fallback"}

\* C17: align_up(address, align) returns, for every address of the machine
\* word and every power-of-two align, the smallest multiple of align that is
\* not below address; an aligned address is returned as it is.
AlignUpSmallest ==
    align_call.called =>
        /\ align_call.panic = "none"
        /\ align_call.val % align_call.align = 0
        /\ align_call.val >= align_call.addr
        /\ align_call.val - align_call.addr < align_call.align
        /\ (align_call.addr % align_call.align = 0 => align_call.val = align_call.addr)

\* align_up rounded an unaligned address up to the next multiple.
AlignUpWitness ==
    /\ align_call.called /\ align_call.panic = "none"
    /\ align_call.addr % align_call.align # 0
    /\ align_call.val > align_call.addr
    /\ align_call.val % align_call.align = 0

PaddedAlign(call) == size_align(call.size, call.align).align

\* The tail of the region behind a block of size bytes at the first multiple
\* of align in it (negative: the block does not fit).
TailOf(region, size, align) ==
    end_addr(region) - (align_up(start_addr(region), align).val + size)

\* The region can serve the request: the block fits and the tail is empty or
\* can hold a record.
Usable(region, size, align) ==
    \/ TailOf(region, size, align) = 0
    \/ TailOf(region, size, align) >= LL_NODE_SIZE

\* The free list after the block was cut from its i-th region: the region is
\* unlinked, the others keep their order, a non-empty tail is put in front.
CutFrom(list, i, alloc_end) ==
    IF end_addr(list[i]) = alloc_end THEN RemoveAt(list, i)
    ELSE <<Region(alloc_end, end_addr(list[i]) - alloc_end)>> \o RemoveAt(list, i)

\* C18: an alloc of the free-list allocator takes its block from the first
\* region of the list, front to back, in which the block fits at
\* align_up(region.start, align) with a tail of 0 or of at least 16 bytes; a
\* region whose tail would be 1..15 bytes is passed over. The matched node is
\* unlinked and the other nodes keep their relative order; with no such
\* region the list is left as it was and the call fails.
FirstFit ==
    [][(kind = "ll" /\ initialized /\ last'.op = "alloc" /\ last'.route # "panic") =>
          \E size \in {PaddedSize(last')}, align \in {PaddedAlign(last')} :
              \/ \E i \in DOMAIN head :
                    /\ Usable(head[i], size, align)
                    /\ \A j \in 1..(i - 1) : ~Usable(head[j], size, align)
                    /\ last'.addr = align_up(start_addr(head[i]), align).val
                    /\ head' = CutFrom(head, i, last'.addr + size)
              \/ /\ \A i \in DOMAIN head : ~Usable(head[i], size, align)
                 /\ last'.addr = NULL
                 /\ head' = head]_vars

\* The region freed just before the alloc, the first of the list, was passed
\* over for its tail of 1..15 bytes and is still in the list; the block came
\* from a later region.
FirstFitWitness ==
    /\ kind = "ll" /\ last.op = "alloc" /\ last.addr # NULL
    /\ prev.op = "dealloc"
    /\ \E i \in DOMAIN head :
          /\ head[i] = Region(prev.addr, PaddedSize(prev))
          /\ TailOf(head[i], PaddedSize(last), PaddedAlign(last)) \in 1..(LL_NODE_SIZE - 1)

\* The panics of the two assertions at the top of add_free_region.
RegionAssertions ==
    {"assertion failed: align_up(addr, align_of ListNode) == addr",
     "assertion failed: size >= size_of ListNode"}

\* C19: on the free-list allocator, on its own or as the fallback of the
\* size-classed allocator, every region of the free list is at least as large
\* as a record (16 bytes) and starts at a multiple of the record's alignment
\* (8 bytes), and neither assertion of add_free_region ever fails.
FreeRegionInvariant ==
    (kind \in {"ll", "fsb"}) =>
        /\ \A i \in DOMAIN head :
              /\ head[i].size >= LL_NODE_SIZE
              /\ start_addr(head[i]) % LL_NODE_ALIGN = 0
        /\ panicked \notin RegionAssertions

\* An alloc left a tail of exactly one record, which is now the first node
\* of a list that holds a freed region too.
FreeRegionWitness ==
    /\ kind \in {"ll", "fsb"} /\ panicked = "none"
    /\ last.op = "alloc" /\ last.addr # NULL
    /\ Len(head) >= 2
    /\ head[1].size = LL_NODE_SIZE
    /\ start_addr(head[1]) = last.addr + PaddedSize(last)

\* The step is one call of the fallback allocator's alloc that answered r,
\* handed on as it is.
FallbackAnswered(r) ==
    /\ panicked' = r.panic
    /\ r.panic # "none" => head' = head
    /\ r.panic = "none" => (last'.addr = r.addr /\ head' = r.list)
    /\ list_heads' = list_heads

\* The class of the layout of the call that the step made.
ClassOfCall == list_index(last'.size, last'.align)

\* C20: an alloc of the size-classed allocator whose class list is empty is
\* one alloc of the layout (class size, class size) on the fallback allocator,
\* whose answer is returned as it is; with no class it is one alloc of the
\* caller's own layout on the fallback allocator; with a block in the class
\* list it returns the first block of the list and leaves the fallback
\* allocator alone.
DispatchOnAlloc ==
    [][(kind = "fsb" /\ initialized /\ last'.op = "alloc") =>
          IF ClassOfCall = None
          THEN FallbackAnswered(ll_alloc(head, last'.size, last'.align))
          ELSE IF list_heads[ClassOfCall] = <<>>
          THEN FallbackAnswered(ll_alloc(head, BLOCK_SIZES[ClassOfCall],
                                         BLOCK_SIZES[ClassOfCall]))
          ELSE /\ last'.addr = Head(list_heads[ClassOfCall])
               /\ list_heads' = [list_heads EXCEPT ![ClassOfCall] = Tail(@)]
               /\ head' = head
               /\ panicked' = "none"]_vars

\* A class list was refilled for a request smaller than the class, while a
\* block of another class waits in its list.
DispatchOnAllocWitness ==
    /\ kind = "fsb" /\ last.op = "alloc" /\ last.addr # NULL
    /\ last.route = "refill"
    /\ last.size < BLOCK_SIZES[last.index]
    /\ \E j \in DOMAIN BLOCK_SIZES : list_heads[j] # <<>>

\* The bytes on the free list.
FreeBytes(list) == SumSizes(list, 1)

\* C21: a refill of an empty class of size B takes exactly B bytes from the
\* free list of the fallback allocator.
RefillCost ==
    [][(kind = "fsb" /\ initialized /\ last'.op = "alloc"
        /\ last'.route = "refill" /\ last'.addr # NULL) =>
          FreeBytes(head) - FreeBytes(head') = BLOCK_SIZES[last'.index]]_vars

\* A refill took place.
RefillCostWitness ==
    /\ kind = "fsb" /\ last.op = "alloc" /\ last.route = "refill" /\ last.addr # NULL
    /\ BLOCK_SIZES[last.index] >= LL_NODE_SIZE
    /\ last.addr = heap_start

\* The call that the step made went to the free-list allocator.
OnFreeList ==
    \/ kind = "ll"
    \/ kind = "fsb" /\ last'.route = "fallback"

\* C22: add_free_region puts the new region in front of the free list and
\* leaves the nodes behind it in their order: after a dealloc of the
\* free-list allocator the first node is [ptr, ptr + padded size) and the rest
\* is the old list; after an alloc that splits a region the first node is the
\* tail behind the block and the rest is the old list without the matched
\* node; after init the list is the heap as one region.
LifoInsertion ==
    [][/\ (initialized /\ OnFreeList /\ last'.op = "dealloc" /\ last'.route # "panic") =>
            /\ Head(head') = Region(last'.addr, PaddedSize(last'))
            /\ Tail(head') = head
       /\ (initialized /\ OnFreeList /\ last'.op = "alloc" /\ last'.route # "panic"
           /\ Len(head') = Len(head) /\ head' # head) =>
            /\ start_addr(Head(head')) = last'.addr + PaddedSize(last')
            /\ \E i \in DOMAIN head :
                  /\ end_addr(Head(head')) = end_addr(head[i])
                  /\ Tail(head') = RemoveAt(head, i)
       /\ (kind \in {"ll", "fsb"} /\ ~initialized /\ initialized' /\ panicked' = "none") =>
            head' = <<Region(heap_start', heap_end' - heap_start')>>]_vars

\* The freed region is the first node although it lies above the second,
\* and the list holds three nodes.
LifoInsertionWitness ==
    /\ kind = "ll" /\ last.op = "dealloc" /\ panicked = "none"
    /\ Len(head) >= 3
    /\ head[1] = Region(last.addr, PaddedSize(last))
    /\ start_addr(head[1]) > start_addr(head[2])

\* C23: right after init of the size-classed allocator the nine class lists
\* are empty and the free list of the fallback allocator is the one region
\* [heap_start, heap_start + heap_size); a class list gets its first block
\* only by a dealloc of a layout of that class; an alloc of a class whose
\* list is empty goes to the fallback allocator.
LazyPopulation ==
    /\ [](kind = "fsb" /\ initialized /\ last.op = "none" /\ panicked = "none" =>
            /\ \A j \in DOMAIN BLOCK_SIZES : list_heads[j] = <<>>
            /\ head = <<Region(Scenarios[scn].start, Scenarios[scn].size)>>)
    /\ [][kind = "fsb" =>
            /\ \A j \in DOMAIN BLOCK_SIZES :
                  (list_heads[j] = <<>> /\ list_heads'[j] # <<>>) =>
                      /\ last'.op = "dealloc"
                      /\ list_index(last'.size, last'.align) = j
            /\ (initialized /\ last'.op = "alloc" /\ ClassOfCall # None
                /\ list_heads[ClassOfCall] = <<>>) =>
                  last'.route \in {"refill", "panic"}]_vars

\* A class got its first block by a dealloc while the others are still
\* empty, after a second class had been refilled from the fallback.
LazyPopulationWitness ==
    /\ kind = "fsb" /\ last.op = "dealloc" /\ last.route = "push"
    /\ list_heads[last.index] = <<last.addr>>
    /\ \A j \in DOMAIN BLOCK_SIZES : j # last.index => list_heads[j] = <<>>
    /\ \E i \in DOMAIN live : list_index(live[i].size, live[i].align) \notin {None, last.index}

\* C24: every block on the list of class k of the size-classed allocator
\* starts at a multiple of BLOCK_SIZES[k].
ClassBlockAlignment ==
    kind = "fsb" =>
        \A k \in DOMAIN BLOCK_SIZES :
            \A i \in DOMAIN list_heads[k] : list_heads[k][i] % BLOCK_SIZES[k] = 0

\* Blocks of two classes wait in their lists; one of them came from a request
\* whose alignment is below its class size.
ClassBlockAlignmentWitness ==
    /\ kind = "fsb" /\ panicked = "none"
    /\ last.op = "dealloc" /\ last.route = "push" /\ last.align < BLOCK_SIZES[last.index]
    /\ \E j, k \in DOMAIN BLOCK_SIZES : j # k /\ list_heads[j] # <<>> /\ list_heads[k] # <<>>

\* C25: an alloc that returns the failure sentinel leaves the allocator as it
\* was: next and allocations of the bump allocator, the free list, the class
\* lists.
FailedAllocNoChange ==
    [][(initialized /\ last'.op = "alloc" /\ last'.route # "panic"
        /\ last'.addr = NULL) =>
          /\ next' = next /\ allocations' = allocations
          /\ head' = head
          /\ list_heads' = list_heads]_vars

\* An alloc failed on a free list that still holds a region, with blocks live.
FailedAllocWitness ==
    /\ last.op = "alloc" /\ last.addr = NULL /\ last.route # "panic"
    /\ kind \in {"ll", "fsb"} /\ head # <<>> /\ live # <<>>
    /\ \A i \in DOMAIN head : heap_start <= start_addr(head[i])

\* The bytes of the padded ranges of the live allocations from the i-th on.
RECURSIVE PaddedLive(_, _)
PaddedLive(seq, i) ==
    IF i > Len(seq) THEN 0 ELSE PaddedSize(seq[i]) + PaddedLive(seq, i + 1)

\* C26: in the free-list allocator the padded ranges of the live allocations
\* and the regions of the free list cover the heap, so that their sizes sum
\* to heap_size at least; once every allocation is freed the free regions sum
\* to heap_size.
Conservation ==
    (kind = "ll" /\ initialized /\ panicked = "none") =>
        /\ FreeBytes(head) + PaddedLive(live, 1) >= heap_end - heap_start
        /\ live = <<>> => FreeBytes(head) = heap_end - heap_start

\* Every allocation is freed again and the heap is on the free list in
\* several regions.
ConservationWitness ==
    /\ kind = "ll" /\ panicked = "none"
    /\ last.op = "dealloc" /\ live = <<>>
    /\ Len(head) >= 3
    /\ FreeBytes(head) = heap_end - heap_start

\* The blocks on the list of class k, each as the range of its class size.
ClassRegions(k) ==
    [i \in DOMAIN list_heads[k] |-> Region(list_heads[k][i], BLOCK_SIZES[k])]

\* The blocks on the lists of the classes from k on.
RECURSIVE ClassRegionsFrom(_)
ClassRegionsFrom(k) ==
    IF k > Len(BLOCK_SIZES) THEN <<>> ELSE ClassRegions(k) \o ClassRegionsFrom(k + 1)

LiveRegions == [i \in DOMAIN live |-> Region(live[i].addr, live[i].size)]

\* Every range of the sequence lies in the heap and no two of them meet.
WellFormed(regions) ==
    /\ \A i \in DOMAIN regions :
          heap_start <= start_addr(regions[i]) /\ end_addr(regions[i]) <= heap_end
    /\ \A i, j \in DOMAIN regions : i < j => Disjoint(regions[i], regions[j])

\* C27: in the size-classed allocator the regions of the fallback's free list,
\* the blocks of all class lists and the live allocations are pairwise
\* disjoint and lie inside [heap_start, heap_start + heap_size); no address
\* is on the lists twice.
FreeMemoryWellFormed ==
    (kind = "fsb" /\ initialized) =>
        WellFormed(head \o ClassRegionsFrom(1) \o LiveRegions)

\* Two class lists and the free list hold memory while a block is live.
FreeMemoryWitness ==
    /\ kind = "fsb" /\ panicked = "none" /\ live # <<>>
    /\ head # <<>>
    /\ \E j, k \in DOMAIN BLOCK_SIZES :
          j # k /\ list_heads[j] # <<>> /\ list_heads[k] # <<>>

\* C28: in an initialized bump allocator next stays in [heap_start, heap_end],
\* allocations is the number of allocs that succeeded minus the number of
\* deallocs, which is the number of live allocations, and allocations = 0
\* implies next = heap_start.
BumpInvariant ==
    (kind = "bump" /\ initialized) =>
        /\ heap_start <= next /\ next <= heap_end
        /\ allocations = Len(live)
        /\ allocations = 0 => next = heap_start

\* One of three allocations was freed: two are counted and next stays where
\* the third alloc left it.
BumpInvariantWitness ==
    /\ kind = "bump" /\ panicked = "none"
    /\ last.op = "dealloc" /\ allocations = 2 /\ Len(live) = 2
    /\ next > live[2].addr + live[2].size

\* C29: in the free-list allocator an alloc that follows at once the dealloc
\* of a block, with the layout of that dealloc, returns the address of the
\* block.
ImmediateReuse ==
    (/\ kind = "ll" /\ last.op = "alloc"
     /\ prev.op = "dealloc" /\ prev.route # "panic"
     /\ prev.size = last.size /\ prev.align = last.align)
    => (last.route # "panic" /\ last.addr = prev.addr)

\* The block came back from the front of a list that holds a larger region
\* at a lower address too.
ImmediateReuseWitness ==
    /\ kind = "ll" /\ last.op = "alloc" /\ last.addr # NULL
    /\ prev.op = "dealloc"
    /\ prev.size = last.size /\ prev.align = last.align
    /\ last.addr = prev.addr
    /\ \E i \in DOMAIN head :
          start_addr(head[i]) < last.addr /\ head[i].size > PaddedSize(last)

\* The places of a call from which it goes on to drop its guards and return.
Returning == SelfCS \ {"panicked"}

\* C30: a call that has taken the lock of its instance drops it before it
\* returns and is never stopped while it holds it: the lock of ALLOCATOR is
\* held only by a call on its way to its return, a call that has returned
\* holds no lock, the lock of the fallback allocator is taken while the lock
\* of ALLOCATOR is held and is free when the call takes it, and it is dropped
\* before the lock of ALLOCATOR is.
LockRelease ==
    /\ [](\A c \in Cores :
            /\ mutex[SelfMutex] = c => pc[c] \in Returning
            /\ mutex[fallback_allocator] = c =>
                  (pc[c] \in FallbackCS /\ mutex[SelfMutex] = c)
            /\ pc[c] \in {"idle", "lock_self"} =>
                  (mutex[SelfMutex] # c /\ mutex[fallback_allocator] # c)
            /\ pc[c] = "lock_fallback" => can_lock(mutex[fallback_allocator]))
    /\ [][\A c \in Cores :
            (mutex[SelfMutex] = c /\ mutex'[SelfMutex] # c) =>
                (mutex[fallback_allocator] # c /\ pc'[c] = "idle")]_vars

\* A call that went through the fallback allocator holds the lock of
\* ALLOCATOR alone again, about to drop it, while another core waits for it.
LockReleaseWitness ==
    \E c, d \in Cores :
        /\ pc[c] = "unlock_self" /\ req[c].op = "alloc" /\ req[c].addr # NULL
        /\ req[c].fsize > 0
        /\ mutex[SelfMutex] = c /\ mutex[fallback_allocator] = NoCore
        /\ pc[d] = "lock_self"

\* writeln! of the test has returned.
TestDone == pending = <<>>

\* C31: once a newline, a string s of printable characters that fits on one
\* line and a newline have gone through the Writer, the characters of s stand
\* in columns 0..len(s)-1 of row BUFFER_HEIGHT-2 in their order, the last row
\* is blank and the column is 0.
LinePlacement ==
    TestDone =>
        /\ \A i \in 1..Len(test_string) :
              buffer[BUFFER_HEIGHT - 2][i - 1] = test_string[i]
        /\ buffer[BUFFER_HEIGHT - 1] = BlankRow
        /\ column_position = 0

\* The test has written a line that fills the row with different characters.
LinePlacementWitness ==
    /\ TestDone
    /\ Len(test_string) = BUFFER_WIDTH
    /\ test_string[1] # test_string[BUFFER_WIDTH]
    /\ \A i \in 1..BUFFER_WIDTH : buffer[BUFFER_HEIGHT - 2][i - 1] = test_string[i]

\* The step is a call of write_byte, from a caller or from write_string.
ByteWritten == ~(pending = <<>> /\ pending' # <<>>)

\* The call of write_byte of this step wrote a character into a cell.
CharWritten == ByteWritten /\ \E i \in DOMAIN written' : written'[i].op = "write"

\* The cells of the buffer are those of the array.
BufferShape ==
    /\ DOMAIN buffer = Rows
    /\ \A row \in Rows : DOMAIN buffer[row] = Cols

\* C32: whatever bytes and strings are written, column_position stays in
\* 0..BUFFER_WIDTH, no index leaves the array (no panic), every character is
\* written to row BUFFER_HEIGHT-1 at a column below BUFFER_WIDTH, and a
\* character written on a full line goes to column 0 of the line that new_line
\* has just opened by moving every row up.
StaysInBounds ==
    /\ [](/\ column_position \in 0..BUFFER_WIDTH
          /\ panicked = "none"
          /\ BufferShape
          /\ \A i \in DOMAIN written :
                /\ written[i].row = BUFFER_HEIGHT - 1
                /\ written[i].col \in Cols)
    /\ [][CharWritten =>
            IF column_position = BUFFER_WIDTH
            THEN /\ Len(written') = 2
                 /\ written'[1].op = "clear_row"
                 /\ written'[2].col = 0
                 /\ column_position' = 1
                 /\ \A row \in Rows \ {BUFFER_HEIGHT - 1} : buffer'[row] = buffer[row + 1]
                 /\ \A col \in Cols \ {0} : buffer'[BUFFER_HEIGHT - 1][col] = BLANK
            ELSE /\ Len(written') = 1
                 /\ written'[1].col = column_position
                 /\ column_position' = column_position + 1
                 /\ \E byte \in {buffer'[BUFFER_HEIGHT - 1][column_position]} :
                       buffer' = [buffer EXCEPT ![BUFFER_HEIGHT - 1][column_position] = byte]]_vars

\* A character has been written on a full line when every row of the screen
\* already held output: it stands alone on the last row.
StaysInBoundsWitness ==
    /\ Len(written) = 2
    /\ column_position = 1
    /\ pending = <<>>
    /\ buffer[BUFFER_HEIGHT - 1][0] = PLACEHOLDER
    /\ \A row \in Rows \ {BUFFER_HEIGHT - 1} : \A col \in Cols : buffer[row][col] # BLANK

\* The context is inside a call of _print.
Printing(c) == print_pc[c] \in {"are_enabled", "disable", "lock", "write_fmt", "unlock", "enable"}

\* The lock the context is about to take is held: it would spin.
Spinning(c) == print_pc[c] = "lock" /\ print_mutex[print_req[c].printer] # NoContext

\* C33: a printer's lock is held only while interrupts are disabled on the
\* core, so no handler is on the core while the code it interrupted holds a
\* lock, no context ever finds the lock it needs taken, and every call of
\* _print returns.
PrintNoDeadlock ==
    /\ [](/\ \A m \in Printers : print_mutex[m] # NoContext => ~interrupts_enabled
          /\ \A h \in Handlers : print_pc[h] # "idle" =>
                \A m \in Printers : print_mutex[m] \in {NoContext, h}
          /\ \A c \in Contexts : ~Spinning(c)
          /\ panicked = "none")
    /\ \A c \in Contexts : Printing(c) ~> ~Printing(c)

\* A handler prints to the screen after it interrupted the kernel inside a
\* call of _print, before the kernel had disabled interrupts.
PrintNoDeadlockWitness ==
    /\ \E h \in Handlers : print_pc[h] = "write_fmt" /\ print_mutex["WRITER"] = h
    /\ print_pc[Kernel] = "disable"
    /\ print_req[Kernel].printer = "WRITER"
    /\ print_req[Kernel].saved

====
